---------------------------- MODULE Spec2Model ----------------------------
(***************************************************************************)
(* Lead Finder (rickwebdev/GCS_Gen): the domain evaluation pipeline.       *)
(*                                                                         *)
(* The module models                                                       *)
(*   - the two scoring functions of utils.py,                              *)
(*   - the spam-confidence aggregate of crawler.py,                        *)
(*   - the admission gate LeadFinder._validate_lead,                       *)
(*   - the per-domain pipeline LeadFinder._process_domain_probe and its    *)
(*     opportunity-mode twin _process_seo_domain_probe,                    *)
(*   - the orchestrator loops find_leads / find_seo_opportunities with     *)
(*     the batch probe and its sequential fallback.                        *)
(*                                                                         *)
(* Python's None is modelled by the string "None" for text fields and by   *)
(* the number None == -1 for the optional numeric fields (all of which     *)
(* are non-negative when present).                                         *)
(***************************************************************************)
EXTENDS Integers, Sequences, FiniteSets, TLC

\* ------------------------------------------------------------------------
\* Bounds of the model
\* ------------------------------------------------------------------------
MaxQueries == 2        \* queries iterated by one run
MaxRegions == 1        \* regions passed to find_leads (0 = no region list)
MaxFlags == 2          \* scoring harness: flags present (or absent) at most
MaxTagCount == 2       \* hacked signals carrying one confidence tag, at most
NumPaths == 2          \* pages of one probe (PROBE_PATHS scaled down)
MaxAssets == 6         \* http:// references in the content of one page
HardCutoff == 2        \* the literal 100 of lead_finder.py:362,418,435, scaled
MaxResults == 2        \* non-junk results of one search

\* ------------------------------------------------------------------------
\* Program constants
\* ------------------------------------------------------------------------
None == -1
SCORE_MIN == 40
PerfCritical == 45
PerfModerate == 60
EvidenceSlice == 3

Max(a, b) == IF a >= b THEN a ELSE b
Min(a, b) == IF a <= b THEN a ELSE b

\* Python truthiness of an optional number: None and 0 are both falsy.
Truthy(n) == n # None /\ n # 0

\* ------------------------------------------------------------------------
\* Domains.  A host is a name with a number of leading "www." labels;
\* utils.extract_domain lower-cases the host and strips ONE leading "www.".
\* ------------------------------------------------------------------------
Host(w, n) == [ www |-> w, name |-> n ]

\* the empty host: extract_domain of a link without a network location
NoDomain == Host(0, "")

extract_domain(h) == IF h.www > 0 THEN Host(h.www - 1, h.name) ELSE h

Names == { "a.com", "b.com", "tribecasalon.com", "n.org", "p.wixsite.com" }

\* config.PREVIOUSLY_SCANNED_DOMAINS, restricted to the hosts of the model
PREVIOUSLY_SCANNED_DOMAINS == { Host(0, "tribecasalon.com") }

\* domain.endswith(tld) for tld in ['.org', '.edu', '.gov', '.mil', '.int', '.ac']
EndsWithExcludedTld(d) == d.www = 0 /\ d.name \in { "n.org" }

\* utils.is_platform_subdomain: re.search(r'\.wixsite\.com$', domain) etc.
is_platform_subdomain(url) == extract_domain(url).name \in { "p.wixsite.com" }

\* ------------------------------------------------------------------------
\* lead_data: the dictionary threaded through the per-domain pipeline
\* ------------------------------------------------------------------------
StdFlagNames ==
  { "mixed_content", "http_only", "no_hsts", "old_jquery", "bootstrap_v3",
    "themepunch_detected", "fouc_issues", "old_jquery_detected",
    "console_errors", "js_loading_issues", "missing_title",
    "missing_meta_desc", "missing_schema", "accessibility_poor",
    "copyright_outdated" }

Builders == { "None", "Divi", "Elementor", "WPBakery", "Avada", "Flatsome" }

SeoFlagNames ==
  { "title_missing", "meta_desc_missing", "robots_noindex", "multiple_h1",
    "thin_content" }

NoSignals == [ spam100 |-> 0, spam60 |-> 0, spam20 |-> 0, path |-> 0,
               hidden |-> 0 ]

\* The dictionary built at lead_finder.py:513-525 before any analysis has
\* added keys to it: every optional key is absent.
EmptyLeadData ==
  [ domain |-> NoDomain, brand_name |-> "None", owner_valid |-> FALSE,
    platform_subdomain |-> FALSE, hacked_signals |-> NoSignals,
    evidence_urls |-> << >>, psi_perf |-> None,
    flags |-> {}, builder |-> "None", broken_links_count |-> 0,
    nyc_bonus |-> 0,
    psi_perf_desktop |-> None, ttfb_ms |-> None, lcp_ms |-> None,
    seo |-> {}, wp_version |-> "None", readme_accessible |-> FALSE,
    https |-> TRUE, sec_mixed_content |-> FALSE, phone |-> FALSE,
    form |-> FALSE, best_rank |-> None ]

WIgnored(ld, flag, pts) == 0

W(ld, flag, pts) == IF flag \in ld.flags THEN pts ELSE 0

\* ------------------------------------------------------------------------
\* utils.calculate_lead_score_enhanced
\* ------------------------------------------------------------------------
EnhancedRawScore(ld) ==
    (IF Truthy(ld.psi_perf_desktop) /\ ld.psi_perf_desktop <= 60
       THEN 25 ELSE 0)
  + (IF Truthy(ld.ttfb_ms) /\ ld.ttfb_ms >= 1200 THEN 15 ELSE 0)
  + (IF Truthy(ld.lcp_ms) /\ ld.lcp_ms >= 4000 THEN 15 ELSE 0)
  + (IF "mixed_content" \in ld.flags \/ "http_only" \in ld.flags
       THEN 15 ELSE 0)
  + W(ld, "no_hsts", 5)
  + (IF ld.builder = "Divi" THEN 20
     ELSE IF ld.builder \in { "Elementor", "WPBakery" } THEN 12 ELSE 0)
  + W(ld, "old_jquery", 10)
  + W(ld, "bootstrap_v3", 6)
  + W(ld, "themepunch_detected", 15)
  + W(ld, "fouc_issues", 10)
  + W(ld, "old_jquery_detected", 8)
  + W(ld, "console_errors", 5)
  + W(ld, "js_loading_issues", 6)
  + W(ld, "missing_title", 8)
  + W(ld, "missing_meta_desc", 6)
  + W(ld, "missing_schema", 5)
  + W(ld, "accessibility_poor", 8)
  + W(ld, "copyright_outdated", 6)
  + (IF ld.broken_links_count >= 2 THEN 10 ELSE 0)
  + ld.nyc_bonus

CapScoreUnclamped(score) == score

\* score = max(0, min(100, score))
CapScore(score) == Max(0, Min(100, score))

EnhancedTierStrict(score) ==
  IF score > 70 THEN "A" ELSE IF score > 50 THEN "B" ELSE "C"

EnhancedTier(score) ==
  IF score >= 70 THEN "A" ELSE IF score >= 50 THEN "B" ELSE "C"

calculate_lead_score_enhanced(ld) ==
  LET score == CapScore(EnhancedRawScore(ld))
  IN  [ score |-> score, tier |-> EnhancedTier(score) ]

\* ------------------------------------------------------------------------
\* utils.calculate_seo_opportunity_score
\* ------------------------------------------------------------------------
S(ld, flag, pts) == IF flag \in ld.seo THEN pts ELSE 0

\* lead_data.get('best_rank', 50)
BestRankOrDefault(ld) == IF ld.best_rank = None THEN 50 ELSE ld.best_rank

SeoRawScore(ld) ==
  LET best_rank == BestRankOrDefault(ld)
  IN  (IF best_rank <= 20 THEN 30
       ELSE IF best_rank <= 30 THEN 20
       ELSE IF best_rank <= 40 THEN 10 ELSE 0)
    + S(ld, "title_missing", 25)
    + S(ld, "meta_desc_missing", 20)
    + S(ld, "robots_noindex", 30)
    + S(ld, "multiple_h1", 15)
    + S(ld, "thin_content", 20)
    \* a version below WP_VERSION_BAD, or one that does not parse, adds 15
    + (IF ld.wp_version \in { "old", "invalid" } THEN 15 ELSE 0)
    + (IF ld.readme_accessible THEN 20 ELSE 0)
    + (IF Truthy(ld.psi_perf) /\ ld.psi_perf < 50 THEN 20
       ELSE IF Truthy(ld.psi_perf) /\ ld.psi_perf < 70 THEN 10 ELSE 0)
    + (IF ld.https = FALSE THEN 10 ELSE 0)
    + (IF ld.sec_mixed_content THEN 5 ELSE 0)
    + (IF ld.phone \/ ld.form THEN 10 ELSE 0)

SeoTier(score) ==
  IF score >= 80 THEN "A"
  ELSE IF score >= 60 THEN "B"
  ELSE IF score >= 40 THEN "C" ELSE "D"

calculate_seo_opportunity_score(ld) ==
  LET score == CapScore(SeoRawScore(ld))
  IN  [ score |-> score, tier |-> SeoTier(score) ]

\* ------------------------------------------------------------------------
\* Pages of a probe.  A page kind stands for one crawler.CrawlResult:
\*   fail     status 0, no content (timeout or transport exception)
\*   notfound status 404, with a body
\*   plain    status 200, with a body that is_owner_site rejects
\*   owner    status 200, with a body that is_owner_site accepts
\* ------------------------------------------------------------------------
PageKinds == { "fail", "notfound", "plain", "owner" }

status_code(k) == CASE k = "fail" -> 0 [] k = "notfound" -> 404 [] OTHER -> 200

HasContent(k) == k # "fail"

\* `page.content and page.status_code < 400`
Successful(k) == HasContent(k) /\ status_code(k) < 400

AnySuccessful(pages) == \E i \in 1..Len(pages) : Successful(pages[i])

\* [p.url for p in probe.pages[:3] if p.status_code < 400]; a URL is named
\* by the index of its probe path.
evidence_urls(pages) ==
  LET Pick[i \in 0..Len(pages)] ==
        IF i = 0 THEN << >>
        ELSE IF i <= EvidenceSlice /\ status_code(pages[i]) < 400
             THEN Append(Pick[i - 1], i)
             ELSE Pick[i - 1]
  IN  Pick[Len(pages)]

owner_valid_always(platform, pages) == TRUE

\* lead_finder.py:490-500
owner_valid(platform, pages) ==
  ~platform /\ \E i \in 1..Len(pages) :
                   Successful(pages[i]) /\ pages[i] = "owner"

\* ------------------------------------------------------------------------
\* crawler.WebCrawler.calculate_spam_confidence.  hacked_signals is the bag
\* of signal strings: spam100/spam60/spam20 are "Spam content (N%
\* confidence): ...", path is "Suspicious path: ...", hidden is "Hidden spam
\* content detected (100% confidence)".  The tier of a signal is re-derived
\* from the substring "N% confidence" of its text, which the hidden-spam
\* signal carries too.
\* ------------------------------------------------------------------------
SignalCount(sig) ==
  sig.spam100 + sig.spam60 + sig.spam20 + sig.path + sig.hidden

calculate_spam_confidence_all(sig) ==
  [ total_confidence |->
      (sig.spam100 + sig.hidden) * 100 + sig.spam60 * 60 + sig.spam20 * 20,
    total_signals |-> SignalCount(sig),
    high_confidence_count |-> sig.spam100 + sig.hidden,
    medium_confidence_count |-> sig.spam60,
    low_confidence_count |-> sig.spam20 ]

calculate_spam_confidence(sig) ==
  LET high == sig.spam100 + sig.hidden
      medium == sig.spam60
      low == sig.spam20
  IN  [ total_confidence |-> high * 100 + medium * 60 + low * 20,
        total_signals |-> high + medium + low,
        high_confidence_count |-> high,
        medium_confidence_count |-> medium,
        low_confidence_count |-> low ]

\* avg_confidence >= k, where avg_confidence is total_confidence /
\* total_signals (a float) or 0 when there is no tagged signal
AvgAtLeast(sa, k) ==
  IF sa.total_signals = 0 THEN 0 >= k
  ELSE sa.total_confidence >= k * sa.total_signals

\* crawler.py:419-422: total_confidence / total_signals is a float; it is
\* kept as the exact fraction num / den, 0 / 1 when no signal is tagged
avg_confidence(sa) ==
  IF sa.total_signals = 0 THEN [ num |-> 0, den |-> 1 ]
  ELSE [ num |-> sa.total_confidence, den |-> sa.total_signals ]

recommendationStrict(sa) ==
  IF sa.total_confidence > 90 * sa.total_signals
    THEN "REJECT - High confidence spam"
  ELSE IF AvgAtLeast(sa, 40)
    THEN "REVIEW - Medium confidence, needs human review"
  ELSE IF AvgAtLeast(sa, 15)
    THEN "ACCEPT - Low confidence, likely false positive"
  ELSE "ACCEPT - No spam detected"

\* crawler.py:424-432
recommendation(sa) ==
  IF AvgAtLeast(sa, 90) THEN "REJECT - High confidence spam"
  ELSE IF AvgAtLeast(sa, 40)
    THEN "REVIEW - Medium confidence, needs human review"
  ELSE IF AvgAtLeast(sa, 15)
    THEN "ACCEPT - Low confidence, likely false positive"
  ELSE "ACCEPT - No spam detected"

\* ------------------------------------------------------------------------
\* LeadFinder._validate_lead
\* ------------------------------------------------------------------------
\* any(term in brand_lower for term in business_terms); a brand name is
\* "None", "legit" (contains a term of the list) or "other"
is_legitimate_business(ld) == ld.brand_name = "legit"

Step1SkipsPlatform(ld) ==
  \/ ld.domain = NoDomain
  \/ EndsWithExcludedTld(ld.domain)
  \/ ld.domain \in PREVIOUSLY_SCANNED_DOMAINS
  \/ ld.evidence_urls = << >>

\* lead_finder.py:637-657
Step1Rejects(ld) ==
  \/ ld.domain = NoDomain
  \/ EndsWithExcludedTld(ld.domain)
  \/ ld.domain \in PREVIOUSLY_SCANNED_DOMAINS
  \/ ld.platform_subdomain
  \/ ld.evidence_urls = << >>

SpamVerdictLenient(ld) ==
  LET sa == calculate_spam_confidence(ld.hacked_signals)
  IN  IF AvgAtLeast(sa, 90) THEN FALSE
      ELSE TRUE

\* lead_finder.py:698-727, reached with a non-empty signal list and no
\* override: every branch returns
SpamVerdict(ld) ==
  LET sa == calculate_spam_confidence(ld.hacked_signals)
  IN  IF AvgAtLeast(sa, 90) THEN FALSE
      ELSE IF AvgAtLeast(sa, 40) THEN is_legitimate_business(ld)
      ELSE IF AvgAtLeast(sa, 15) THEN TRUE
      ELSE TRUE

validate_lead(ld, critical_performance_issue) ==
  IF Step1Rejects(ld) THEN FALSE
  ELSE IF critical_performance_issue THEN TRUE
  ELSE IF SignalCount(ld.hacked_signals) > 0 THEN SpamVerdict(ld)
  \* lead_finder.py:729-733 sits behind the block above, which returns on
  \* every path; it is reached only with an empty signal list
  ELSE IF SignalCount(ld.hacked_signals) > 0 /\ ld.hacked_signals.hidden > 0
       THEN FALSE
  ELSE TRUE

\* ------------------------------------------------------------------------
\* Critical-performance override, lead_finder.py:574-585
\* ------------------------------------------------------------------------
\* `lead_data.get('psi') and lead_data['psi'].get('perf')` and perf <= 45
critical_performance_issue(perf) == Truthy(perf) /\ perf <= PerfCritical

performance_override_reason(perf) ==
  IF critical_performance_issue(perf) THEN "perf_low" ELSE "None"

AdmitAlways(score, critical) == TRUE

\* lead_finder.py:618
Admit(score, critical) == score >= SCORE_MIN \/ critical

\* ------------------------------------------------------------------------
\* A site: what the environment serves for one domain at the time it is
\* processed (the fetched pages, what the extractors find in them, what the
\* performance provider measures).
\*   pages    the probe's page list
\*   raises   an extractor raises (for instance the group-less address
\*            pattern of crawler.py:529 followed by match.group(1))
\*   brand    extract_brand_name of the first titled page
\*   signals  detect_hacked_signals
\*   perf     psi['perf'] of analyze_lead_performance, None when the
\*            measurement failed or carries no performance score
\*   html_ok  analyze_html_for_outdated_sites_enhanced returned (it is
\*            wrapped in its own try/except, lead_finder.py:535-572)
\*   flags .. nyc_bonus   the analysis merged at lead_finder.py:558-559
\*   seo .. form          extract_seo_info, extract_technical_info,
\*                        extract_security_info, extract_contact_info
\* ------------------------------------------------------------------------
NoHtml ==
  [ html_ok |-> FALSE, flags |-> {}, builder |-> "None",
    broken_links_count |-> 0, nyc_bonus |-> 0 ]

Html(f, b, k, n) ==
  [ html_ok |-> TRUE, flags |-> f, builder |-> b, broken_links_count |-> k,
    nyc_bonus |-> n ]

NoExtras ==
  [ seo |-> {}, wp_version |-> "None", readme_accessible |-> FALSE,
    https |-> TRUE, sec_mixed_content |-> FALSE, phone |-> FALSE,
    form |-> FALSE ]

Site(pages, raises, brand, signals, perf, html, extras) ==
  [ pages |-> pages, raises |-> raises, brand |-> brand,
    signals |-> signals, perf |-> perf, html |-> html, extras |-> extras ]

\* What the extractors report comes from successful pages only: without
\* one there is no brand name, no signal and nothing to raise on.
SiteOK(s) ==
  AnySuccessful(s.pages) \/
    (s.brand = "None" /\ SignalCount(s.signals) = 0 /\ ~s.raises)

\* Flag sets the outdated-site analysis can produce for a page fetched over
\* https (urljoin of "https://<domain>", lead_finder.py:403): http_only is
\* never set, RE_JQ_OLD implies RE_JQUERY_OLD, and a FOUC hit sets
\* js_loading_issues with it.
HtmlFlagsOK(f) ==
  /\ "http_only" \notin f
  /\ ("old_jquery" \in f => "old_jquery_detected" \in f)
  /\ ("fouc_issues" \in f => "js_loading_issues" \in f)

\* lead_finder.py:513-525
base_lead_data(domain, root_url, s) ==
  LET platform == is_platform_subdomain(root_url)
  IN  [ EmptyLeadData EXCEPT
          !.domain = domain,
          !.brand_name = s.brand,
          !.owner_valid = owner_valid(platform, s.pages),
          !.platform_subdomain = platform,
          !.hacked_signals = s.signals,
          !.evidence_urls = evidence_urls(s.pages),
          !.seo = s.extras.seo,
          !.wp_version = s.extras.wp_version,
          !.readme_accessible = s.extras.readme_accessible,
          !.https = s.extras.https,
          !.sec_mixed_content = s.extras.sec_mixed_content,
          !.phone = s.extras.phone,
          !.form = s.extras.form ]

\* _analyze_performance / pagespeed.analyze_lead_performance: adds the
\* 'psi' dictionary when the provider returned a result
analyze_performance(ld, s) == [ ld EXCEPT !.psi_perf = s.perf ]

\* lead_finder.py:534-572: merge of the outdated-site analysis
analyze_html(ld, s) ==
  IF ld.owner_valid /\ AnySuccessful(s.pages) /\ s.html.html_ok
    THEN [ ld EXCEPT !.flags = s.html.flags,
                     !.builder = s.html.builder,
                     !.broken_links_count = s.html.broken_links_count,
                     !.nyc_bonus = s.html.nyc_bonus ]
    ELSE ld

\* lead_data at the call of _validate_lead in the standard pipeline
standard_lead_data(domain, root_url, s) ==
  LET ld0 == base_lead_data(domain, root_url, s)
      ld1 == IF ld0.owner_valid THEN analyze_performance(ld0, s) ELSE ld0
  IN  analyze_html(ld1, s)

\* Lead(**lead_data) plus the setattr of lead_finder.py:608-609
Lead(ld, sc, reason) ==
  [ domain |-> ld.domain, brand_name |-> ld.brand_name,
    owner_valid |-> ld.owner_valid,
    platform_subdomain |-> ld.platform_subdomain,
    hacked_signals |-> ld.hacked_signals, psi_perf |-> ld.psi_perf,
    evidence_urls |-> ld.evidence_urls,
    score |-> sc.score, tier |-> sc.tier,
    best_rank |-> ld.best_rank,
    performance_override_reason |-> reason ]

\* The trace of one call of the per-domain pipeline.
\*   stage  "skipped" (prior-scan early return), "error" (exception caught
\*          at the per-domain boundary), "invalid" (_validate_lead said
\*          no), "scored" (score and tier were computed)
Trace(stage, ld, crit, sc, acc) ==
  [ stage |-> stage, ld |-> ld, critical |-> crit,
    score |-> sc.score, tier |-> sc.tier, accepted |-> acc ]

NoTrace == Trace("none", EmptyLeadData, FALSE, [ score |-> 0, tier |-> "D" ],
                 FALSE)

\* LeadFinder._process_domain_probe after the prior-scan check
standard_pipeline(domain, root_url, s) ==
  IF s.raises
    THEN Trace("error", [ EmptyLeadData EXCEPT !.domain = domain ], FALSE,
               [ score |-> 0, tier |-> "D" ], FALSE)
    ELSE
      LET ld == standard_lead_data(domain, root_url, s)
          crit == critical_performance_issue(ld.psi_perf)
          sc == calculate_lead_score_enhanced(ld)
      IN  IF ~validate_lead(ld, crit)
            THEN Trace("invalid", ld, crit, [ score |-> 0, tier |-> "D" ],
                       FALSE)
            ELSE Trace("scored", ld, crit, sc, Admit(sc.score, crit))

\* LeadFinder._process_seo_domain_probe after the prior-scan check: no
\* outdated-site analysis, no override, validation before the performance
\* measurement, and the score of lead_finder.py:330
seo_pipeline(domain, root_url, rank, s) ==
  IF s.raises
    THEN Trace("error", [ EmptyLeadData EXCEPT !.domain = domain ], FALSE,
               [ score |-> 0, tier |-> "D" ], FALSE)
    ELSE
      LET ld0 == [ base_lead_data(domain, root_url, s) EXCEPT
                     !.best_rank = rank ]
          ld == IF ld0.owner_valid THEN analyze_performance(ld0, s) ELSE ld0
          sc == calculate_lead_score_enhanced(ld)
      IN  IF ~validate_lead(ld0, FALSE)
            THEN Trace("invalid", ld0, FALSE, [ score |-> 0, tier |-> "D" ],
                       FALSE)
            \* lead_data.get('critical_performance_issue', False): the key
            \* is never written
            ELSE Trace("scored", ld, FALSE, sc, Admit(sc.score, FALSE))

RejectReasonLowScore(t) == "low_score_" \o ToString(t.score)

\* the rejection reason recorded for a trace that did not end in a lead
RejectReason(t) ==
  CASE t.stage = "error" -> "processing_error"
    [] t.stage = "invalid" -> "failed_validation"
    [] OTHER -> "low_score_" \o ToString(t.score)

\* ------------------------------------------------------------------------
\* State
\* ------------------------------------------------------------------------
VARIABLES
  mode,               \* "standard" (find_leads) or "seo" (find_seo_opportunities)
  max_leads,          \* the max_leads argument of the run
  n_regions,          \* len(regions); 0 when no region list is passed
  n_queries,          \* len(queries) of the run
  pc,                 \* position of the orchestrator
  qi,                 \* index of the next query of the query loop
  ri,                 \* index of the next region of the region loop
  queue,              \* probes (or fallback URLs) of the current batch
  processed_domains,  \* LeadFinder.processed_domains
  leads,              \* LeadFinder.leads
  rejected_domains,   \* LeadFinder.rejected_domains: domain -> reason
  stats,              \* LeadFinder.stats
  domain_ranks,       \* find_seo_opportunities: domain_ranks, in insertion order
  handed,             \* history: domains of the probes the batch probe returned
  last,               \* history: trace of the latest per-domain pipeline call
  fn                  \* scoring harness: an input and the two results

vars == << mode, max_leads, n_regions, n_queries, pc, qi, ri, queue, processed_domains,
           leads, rejected_domains, stats, domain_ranks, handed, last, fn >>

run_vars == << mode, max_leads, n_regions, n_queries, pc, qi, ri, queue,
               processed_domains, leads, rejected_domains, stats,
               domain_ranks, handed, last >>

\* cli.py:40, the default --rank-window
RANK_MIN == 11
RANK_MAX == 40

\* hosts of the result links of the orchestrator's runs
Links ==
  { Host(0, "a.com"), Host(2, "a.com"), Host(0, "b.com"),
    Host(0, "tribecasalon.com") }

NoFn == [ kind |-> "none", ld |-> EmptyLeadData, done |-> FALSE,
          score |-> 0, tier |-> "D" ]

\* all orderings of a finite set, as sequences without repetition
Perms(T) ==
  { q \in [ 1..Cardinality(T) -> T ] :
      \A i, j \in 1..Cardinality(T) : i # j => q[i] # q[j] }

\* rejected_domains[d] = reason
Reject(rej, d, reason) ==
  [ x \in (DOMAIN rej) \cup { d } |-> IF x = d THEN reason ELSE rej[x] ]

Bump(st, key) == [ st EXCEPT ![key] = @ + 1 ]

\* self.leads.sort(key=lambda x: x.score, reverse=True): a stable sort
RECURSIVE InsertByScore(_, _)
InsertByScore(sorted, l) ==
  IF sorted = << >> THEN << l >>
  ELSE IF Head(sorted).score >= l.score
         THEN << Head(sorted) >> \o InsertByScore(Tail(sorted), l)
         ELSE << l >> \o sorted

RECURSIVE SortByScore(_)
SortByScore(ls) ==
  IF ls = << >> THEN << >>
  ELSE InsertByScore(SortByScore(SubSeq(ls, 1, Len(ls) - 1)), ls[Len(ls)])

InitRun ==
  /\ mode \in { "standard", "seo" }
  /\ max_leads \in 1..(HardCutoff + 1)
  /\ n_regions \in 0..MaxRegions
  /\ mode = "seo" => n_regions = 0
  /\ n_queries = MaxQueries
  /\ pc = "loop"
  /\ qi = 1
  /\ ri = 0
  /\ queue = << >>
  /\ processed_domains = {}
  /\ leads = << >>
  /\ rejected_domains = << >>
  /\ stats = [ domains_probed |-> 0, leads_generated |-> 0,
               domains_rejected |-> 0 ]
  /\ domain_ranks = << >>
  /\ handed = {}
  /\ last = NoTrace

Init == InitRun /\ fn = NoFn

\* ------------------------------------------------------------------------
\* Sites served to the orchestrator's runs: a small product that reaches
\* every outcome of the pipeline (dead site, owner site, hidden spam,
\* critical performance, scores below the floor and in tiers B and A).
\* ------------------------------------------------------------------------
OwnerPages == [ i \in 1..NumPaths |-> IF i = 1 THEN "owner" ELSE "plain" ]
DeadPages == [ i \in 1..NumPaths |-> "fail" ]

HiddenOnly == [ NoSignals EXCEPT !.hidden = 1 ]

Html50 == Html({ "mixed_content", "themepunch_detected" }, "Divi", 0, 0)

RunSites ==
  { \* every fetch failed
    Site(DeadPages, FALSE, "None", NoSignals, None, NoHtml, NoExtras),
    \* an extractor raises
    Site(OwnerPages, TRUE, "other", NoSignals, None, NoHtml, NoExtras),
    \* owner site with hidden injected spam
    Site(OwnerPages, FALSE, "other", HiddenOnly, None, Html50, NoExtras),
    \* owner site scoring 50
    Site(OwnerPages, FALSE, "other", NoSignals, None, Html50, NoExtras),
    \* owner site with a critical performance score and no other defect
    Site(OwnerPages, FALSE, "other", NoSignals, PerfCritical, NoHtml,
         NoExtras) }

\* ------------------------------------------------------------------------
\* find_leads
\* ------------------------------------------------------------------------
\* where the orchestrator continues when a batch is over
AfterBatch ==
  IF ri = 0
    THEN pc' = "loop" /\ qi' = qi + 1 /\ ri' = ri
    ELSE pc' = "search" /\ ri' = ri + 1 /\ qi' = qi

\* find_leads:88-94 and _process_query:360: a query is entered
EnterQuery ==
  /\ pc = "loop"
  /\ mode = "standard"
  /\ qi <= n_queries
  /\ Len(leads) < max_leads
  /\ pc' = "search"
  /\ ri' = IF n_regions > 0 THEN 1 ELSE 0
  /\ UNCHANGED << mode, max_leads, n_regions, n_queries, qi, queue, processed_domains,
                  leads, rejected_domains, stats, domain_ranks, handed,
                  last, fn >>

\* _process_query:361-363: the region loop ends, or breaks at the cutoff
LeaveQuery ==
  /\ pc = "search"
  /\ ri >= 1
  /\ (ri > n_regions \/ Len(leads) >= HardCutoff)
  /\ pc' = "loop"
  /\ qi' = qi + 1
  /\ UNCHANGED << mode, max_leads, n_regions, n_queries, ri, queue, processed_domains,
                  leads, rejected_domains, stats, domain_ranks, handed,
                  last, fn >>

CanSearch ==
  /\ pc = "search"
  /\ (ri = 0 \/ (ri <= n_regions /\ Len(leads) < HardCutoff))

\* _process_search_results:384-389
NewDomains(links) ==
  { extract_domain(l) : l \in links } \ processed_domains

\* a search whose results hold no new domain
SearchNothing(links) ==
  /\ CanSearch
  /\ NewDomains(links) = {}
  /\ AfterBatch
  /\ UNCHANGED << mode, max_leads, n_regions, n_queries, queue, processed_domains,
                  leads, rejected_domains, stats, domain_ranks, handed,
                  last, fn >>

\* _probe_domains:399-414 with crawler.probe_domains: the probes of the
\* domains whose probe did not fail, in the order of the URL list
ProbeBatch(links, urls) ==
  /\ CanSearch
  /\ NewDomains(links) # {}
  /\ \E returned \in SUBSET (1..Len(urls)) :
       LET probes == SelectSeq(
                       [ i \in 1..Len(urls) |->
                           [ domain |-> extract_domain(urls[i]),
                             root_url |-> urls[i], idx |-> i ] ],
                       LAMBDA pr : pr.idx \in returned)
       IN  /\ queue' = [ i \in 1..Len(probes) |->
                           [ domain |-> probes[i].domain,
                             root_url |-> probes[i].root_url ] ]
           /\ handed' = handed \cup { probes[i].domain : i \in 1..Len(probes) }
  /\ pc' = "batch"
  /\ UNCHANGED << mode, max_leads, n_regions, n_queries, qi, ri, processed_domains,
                  leads, rejected_domains, stats, domain_ranks, last, fn >>

\* _probe_domains:428-431: the batch probe itself raised
ProbeFails(links, urls) ==
  /\ CanSearch
  /\ NewDomains(links) # {}
  /\ queue' = [ i \in 1..Len(urls) |->
                  [ domain |-> extract_domain(urls[i]), root_url |-> urls[i] ] ]
  /\ pc' = "fallback"
  /\ UNCHANGED << mode, max_leads, n_regions, n_queries, qi, ri, processed_domains,
                  leads, rejected_domains, stats, domain_ranks, handed,
                  last, fn >>

\* _probe_domains:417-426 with _process_domain_probe
ProcessProbe(s) ==
  /\ pc = "batch"
  /\ queue # << >>
  /\ Len(leads) < HardCutoff
  /\ LET probe == Head(queue)
         t == standard_pipeline(probe.domain, probe.root_url, s)
     IN  IF probe.domain \in PREVIOUSLY_SCANNED_DOMAINS
           THEN /\ stats' = Bump(stats, "domains_rejected")
                /\ last' = Trace("skipped",
                                 [ EmptyLeadData EXCEPT !.domain = probe.domain ],
                                 FALSE, [ score |-> 0, tier |-> "D" ], FALSE)
                /\ UNCHANGED << processed_domains, leads, rejected_domains >>
           ELSE /\ processed_domains' = processed_domains \cup { probe.domain }
                /\ last' = t
                /\ IF t.accepted
                     THEN /\ leads' = Append(leads,
                                 Lead(t.ld, t,
                                      performance_override_reason(t.ld.psi_perf)))
                          /\ stats' = Bump(Bump(stats, "domains_probed"),
                                           "leads_generated")
                          /\ UNCHANGED rejected_domains
                     ELSE /\ rejected_domains' =
                               Reject(rejected_domains, probe.domain,
                                      RejectReason(t))
                          /\ stats' = Bump(Bump(stats, "domains_probed"),
                                           "domains_rejected")
                          /\ UNCHANGED leads
  /\ queue' = Tail(queue)
  /\ UNCHANGED << mode, max_leads, n_regions, n_queries, pc, qi, ri, domain_ranks,
                  handed, fn >>

\* models.py:144-145: the fields DomainProbe requires; lead_finder.py:440-443:
\* the fields the fallback passes
DomainProbeRequired == { "domain", "root_url" }
FallbackProbeArgs == { "domain", "pages" }

\* _probe_domains:432-449: one URL of the sequential fallback
FallbackStep(s) ==
  /\ pc = "fallback"
  /\ queue # << >>
  /\ Len(leads) < HardCutoff
  /\ LET url == Head(queue).root_url
         domain == extract_domain(url)
         t == standard_pipeline(domain, url,
                [ s EXCEPT !.pages = << "fail" >>, !.raises = FALSE,
                           !.brand = "None", !.signals = NoSignals ])
     IN  IF ~(DomainProbeRequired \subseteq FallbackProbeArgs)
           THEN \* the constructor raises; caught at lead_finder.py:446
                /\ rejected_domains' =
                     Reject(rejected_domains, domain, "fallback_error")
                /\ stats' = Bump(stats, "domains_rejected")
                /\ UNCHANGED << processed_domains, leads, last >>
           ELSE /\ processed_domains' = processed_domains \cup { domain }
                /\ last' = t
                /\ rejected_domains' =
                     Reject(rejected_domains, domain, RejectReason(t))
                /\ stats' = Bump(Bump(stats, "domains_probed"),
                                 "domains_rejected")
                /\ UNCHANGED leads
  /\ queue' = Tail(queue)
  /\ UNCHANGED << mode, max_leads, n_regions, n_queries, pc, qi, ri, domain_ranks,
                  handed, fn >>

\* the probe loop (or the fallback loop) ends, or breaks at the cutoff
EndBatch ==
  /\ pc \in { "batch", "fallback" }
  /\ (queue = << >> \/ Len(leads) >= HardCutoff)
  /\ queue' = << >>
  /\ AfterBatch
  /\ UNCHANGED << mode, max_leads, n_regions, n_queries, processed_domains, leads,
                  rejected_domains, stats, domain_ranks, handed, last, fn >>

\* find_leads:88-91 and 99-105: the query loop ends, _finalize_leads
Finish ==
  /\ pc = "loop"
  /\ mode = "standard"
  /\ (qi > n_queries \/ Len(leads) >= max_leads)
  /\ leads' = SortByScore(leads)
  /\ pc' = "done"
  /\ UNCHANGED << mode, max_leads, n_regions, n_queries, qi, ri, queue,
                  processed_domains, rejected_domains, stats, domain_ranks,
                  handed, last, fn >>

LinkSets == { L \in SUBSET Links : Cardinality(L) <= MaxResults }

StandardNext ==
  \/ EnterQuery
  \/ LeaveQuery
  \/ \E L \in LinkSets : SearchNothing(L)
  \/ \E L \in LinkSets : \E urls \in Perms(NewDomains(L)) : ProbeBatch(L, urls)
  \/ \E L \in LinkSets : \E urls \in Perms(NewDomains(L)) : ProbeFails(L, urls)
  \/ \E s \in RunSites : ProcessProbe(s)
  \/ \E s \in RunSites : FallbackStep(s)
  \/ EndBatch
  \/ Finish

\* ------------------------------------------------------------------------
\* find_seo_opportunities
\* ------------------------------------------------------------------------
\* positions (i + 1) of the non-junk results of one search: one before
\* the rank window, two inside it
SerpPositions == { 10, 20, 35 }

SerpResults ==
  UNION { [ P -> Links ] :
            P \in { Q \in SUBSET SerpPositions : Cardinality(Q) <= MaxResults } }

SetMin(T) == CHOOSE x \in T : \A y \in T : x <= y

HasRank(ranks, d) == \E i \in 1..Len(ranks) : ranks[i].domain = d

\* _process_seo_query:203-217 for one result inside the rank window
RankUpdate(ranks, d, pos, q) ==
  IF HasRank(ranks, d)
    THEN [ i \in 1..Len(ranks) |->
             IF ranks[i].domain = d /\ pos < ranks[i].best_rank
               THEN [ ranks[i] EXCEPT !.best_rank = pos, !.top_query = q ]
               ELSE ranks[i] ]
    ELSE Append(ranks, [ domain |-> d, best_rank |-> pos, top_query |-> q ])

\* _process_seo_query:194-217 over the results in result order
RECURSIVE UpdateRanks(_, _, _, _)
UpdateRanks(ranks, res, todo, q) ==
  IF todo = {} THEN ranks
  ELSE LET pos == SetMin(todo)
           d == extract_domain(res[pos])
       IN  UpdateRanks(IF RANK_MIN <= pos /\ pos <= RANK_MAX
                         THEN RankUpdate(ranks, d, pos, q) ELSE ranks,
                       res, todo \ { pos }, q)

\* domain_ranks.get(domain, {}).get('best_rank', 50)
BestRankOf(ranks, d) ==
  IF HasRank(ranks, d)
    THEN (CHOOSE r \in { ranks[i] : i \in 1..Len(ranks) } :
            r.domain = d).best_rank
    ELSE 50

\* find_seo_opportunities:138-144 with _process_seo_query
SeoQuery(res) ==
  /\ pc = "loop"
  /\ mode = "seo"
  /\ qi <= n_queries
  /\ Len(leads) < max_leads
  /\ domain_ranks' = UpdateRanks(domain_ranks, res, DOMAIN res, qi)
  /\ qi' = qi + 1
  /\ UNCHANGED << mode, max_leads, n_regions, n_queries, pc, ri, queue,
                  processed_domains, leads, rejected_domains, stats, handed,
                  last, fn >>

SeoLoopOver ==
  /\ pc = "loop"
  /\ mode = "seo"
  /\ (qi > n_queries \/ Len(leads) >= max_leads)

\* _process_seo_domains:226-235: the probes the batch probe returns
SeoProbeBatch(returned) ==
  /\ SeoLoopOver
  /\ LET probes == SelectSeq(
                     [ i \in 1..Len(domain_ranks) |->
                         [ domain |-> extract_domain(domain_ranks[i].domain),
                           root_url |-> domain_ranks[i].domain, idx |-> i ] ],
                     LAMBDA pr : pr.idx \in returned)
     IN  /\ queue' = [ i \in 1..Len(probes) |->
                         [ domain |-> probes[i].domain,
                           root_url |-> probes[i].root_url ] ]
         /\ handed' = handed \cup { probes[i].domain : i \in 1..Len(probes) }
  /\ pc' = "seo_batch"
  /\ UNCHANGED << mode, max_leads, n_regions, n_queries, qi, ri, processed_domains,
                  leads, rejected_domains, stats, domain_ranks, last, fn >>

\* _process_seo_domains:235: the batch probe raises; nothing catches it
\* inside find_seo_opportunities
SeoProbeFails ==
  /\ SeoLoopOver
  /\ pc' = "aborted"
  /\ UNCHANGED << mode, max_leads, n_regions, n_queries, qi, ri, queue,
                  processed_domains, leads, rejected_domains, stats,
                  domain_ranks, handed, last, fn >>

\* _process_seo_domains:238-242 with _process_seo_domain_probe
ProcessSeoProbe(s) ==
  /\ pc = "seo_batch"
  /\ queue # << >>
  /\ Len(leads) < max_leads
  /\ LET probe == Head(queue)
         t == seo_pipeline(probe.domain, probe.root_url,
                           BestRankOf(domain_ranks, probe.domain), s)
     IN  IF probe.domain \in PREVIOUSLY_SCANNED_DOMAINS
           THEN /\ stats' = Bump(stats, "domains_rejected")
                /\ last' = Trace("skipped",
                                 [ EmptyLeadData EXCEPT !.domain = probe.domain ],
                                 FALSE, [ score |-> 0, tier |-> "D" ], FALSE)
                /\ UNCHANGED << processed_domains, leads, rejected_domains >>
           ELSE /\ processed_domains' = processed_domains \cup { probe.domain }
                /\ last' = t
                /\ IF t.accepted
                     THEN /\ leads' = Append(leads, Lead(t.ld, t, "None"))
                          /\ stats' = Bump(Bump(stats, "domains_probed"),
                                           "leads_generated")
                          /\ UNCHANGED rejected_domains
                     ELSE /\ rejected_domains' =
                               Reject(rejected_domains, probe.domain,
                                      RejectReason(t))
                          /\ stats' = Bump(Bump(stats, "domains_probed"),
                                           "domains_rejected")
                          /\ UNCHANGED leads
  /\ queue' = Tail(queue)
  /\ UNCHANGED << mode, max_leads, n_regions, n_queries, pc, qi, ri, domain_ranks,
                  handed, fn >>

\* _process_seo_domains:238-240 ends, find_seo_opportunities:152-158
SeoFinish ==
  /\ pc = "seo_batch"
  /\ (queue = << >> \/ Len(leads) >= max_leads)
  /\ queue' = << >>
  /\ leads' = SortByScore(leads)
  /\ pc' = "done"
  /\ UNCHANGED << mode, max_leads, n_regions, n_queries, qi, ri, processed_domains,
                  rejected_domains, stats, domain_ranks, handed, last, fn >>

\* sites of the opportunity-mode runs: the run sites, with and without
\* on-page SEO gaps
SeoGaps ==
  [ NoExtras EXCEPT !.seo = { "title_missing", "meta_desc_missing" },
                    !.phone = TRUE ]

SeoRunSites ==
  RunSites \cup { [ s EXCEPT !.extras = SeoGaps ] : s \in RunSites }

SeoNext ==
  \/ \E res \in SerpResults : SeoQuery(res)
  \/ \E returned \in SUBSET (1..Len(domain_ranks)) : SeoProbeBatch(returned)
  \/ SeoProbeFails
  \/ \E s \in SeoRunSites : ProcessSeoProbe(s)
  \/ SeoFinish

Next == StandardNext \/ SeoNext


Spec == Init /\ [][Next]_vars


\* ------------------------------------------------------------------------
\* A run of one query over one result, the site behind it ranging over
\*   - every page list, brand, signal bag and performance score (the
\*     admission gate), and
\*   - every outcome of the outdated-site analysis within MaxFlags (the
\*     score that meets the floor).
\* ------------------------------------------------------------------------
ProbeLinks == { Host(0, n) : n \in Names }

PageLists == [ 1..NumPaths -> PageKinds ]

SignalBags ==
  [ spam100 : 0..MaxTagCount, spam60 : 0..MaxTagCount,
    spam20 : 0..MaxTagCount, path : 0..1, hidden : 0..1 ]

PerfValues == { None, 0, PerfCritical, PerfCritical + 1, PerfModerate }

\* every page list, the other inputs at their extremes
PageSites ==
  { s \in { Site(p, r, "legit", g, f, Html50, NoExtras) :
              p \in PageLists, r \in BOOLEAN,
              g \in { NoSignals, HiddenOnly },
              f \in { None, PerfCritical } } : SiteOK(s) }

PlainPages == [ i \in 1..NumPaths |-> "plain" ]

\* every brand, signal bag and performance score, on a site that answers
GateSites ==
  { s \in { Site(p, FALSE, b, g, f, Html50, NoExtras) :
              p \in { OwnerPages, PlainPages },
              b \in { "None", "legit", "other" }, g \in SignalBags,
              f \in PerfValues } : SiteOK(s) }

\* flag sets with at most MaxFlags flags present, or at most MaxFlags absent
FlagSets ==
  { f \in SUBSET StdFlagNames :
      Cardinality(f) <= MaxFlags \/ Cardinality(StdFlagNames \ f) <= MaxFlags }

HtmlResults ==
  { NoHtml } \cup
  { Html(f, b, k, n) :
      f \in { g \in FlagSets : HtmlFlagsOK(g) }, b \in Builders,
      k \in { 1, 2 }, n \in { 0, 10 } }

ScoreSites ==
  { Site(OwnerPages, FALSE, "other", NoSignals, f, h, NoExtras) :
      f \in { None, PerfCritical, PerfCritical + 1 }, h \in HtmlResults }

ProbeSites == PageSites \cup GateSites \cup ScoreSites

InitProbe ==
  /\ mode = "standard"
  /\ max_leads = 1
  /\ n_regions = 0
  /\ n_queries = 1
  /\ pc = "loop"
  /\ qi = 1
  /\ ri = 0
  /\ queue = << >>
  /\ processed_domains = {}
  /\ leads = << >>
  /\ rejected_domains = << >>
  /\ stats = [ domains_probed |-> 0, leads_generated |-> 0,
               domains_rejected |-> 0 ]
  /\ domain_ranks = << >>
  /\ handed = {}
  /\ last = NoTrace
  /\ fn = NoFn

\* the probe at the head of the batch is of any of the sites
ProbeSite ==
  /\ pc = "batch"
  /\ queue # << >>
  /\ \E s \in ProbeSites : ProcessProbe(s)

NextProbe ==
  \/ EnterQuery
  \/ \E l \in ProbeLinks : ProbeBatch({ l }, << extract_domain(l) >>)
  \/ ProbeSite
  \/ EndBatch
  \/ Finish

SpecProbe == InitProbe /\ [][NextProbe]_vars


\* ------------------------------------------------------------------------
\* The two scoring functions applied to dictionaries a caller may pass:
\* any flag set within MaxFlags of empty or of full, any locale bonus.
\* ------------------------------------------------------------------------
NycBonuses == { -30, 0, 10 }

\* (psi_perf_desktop, ttfb_ms, lcp_ms)
PsiTriples ==
  { << None, None, None >>, << PerfModerate, 1200, 4000 >>,
    << PerfModerate + 1, 1199, 3999 >> }

StdInputs ==
  { [ EmptyLeadData EXCEPT !.flags = f, !.builder = b,
                           !.broken_links_count = k, !.nyc_bonus = n,
                           !.psi_perf_desktop = t[1], !.ttfb_ms = t[2],
                           !.lcp_ms = t[3] ] :
      f \in FlagSets, b \in Builders, k \in { 1, 2 }, n \in NycBonuses,
      t \in PsiTriples }

SeoRanks == { None, 20, 21, 30, 31, 40, 41 }

SeoPerfs == { None, 0, 49, 50, 69, 70 }

SeoInputs ==
  { [ EmptyLeadData EXCEPT !.best_rank = r, !.seo = f, !.wp_version = w,
                           !.readme_accessible = a, !.psi_perf = q,
                           !.https = ~x, !.sec_mixed_content = x,
                           !.phone = x ] :
      r \in SeoRanks, f \in SUBSET SeoFlagNames,
      w \in { "None", "old", "current" }, a \in BOOLEAN, q \in SeoPerfs,
      x \in BOOLEAN }

InitScore ==
  /\ mode = "standard"
  /\ max_leads = 1
  /\ n_regions = 0
  /\ n_queries = 1
  /\ pc = "call"
  /\ qi = 1
  /\ ri = 0
  /\ queue = << >>
  /\ processed_domains = {}
  /\ leads = << >>
  /\ rejected_domains = << >>
  /\ stats = [ domains_probed |-> 0, leads_generated |-> 0,
               domains_rejected |-> 0 ]
  /\ domain_ranks = << >>
  /\ handed = {}
  /\ last = NoTrace
  /\ \/ \E ld \in StdInputs : fn = [ NoFn EXCEPT !.kind = "enhanced", !.ld = ld ]
     \/ \E ld \in SeoInputs : fn = [ NoFn EXCEPT !.kind = "seo", !.ld = ld ]

CallEnhanced ==
  /\ fn.kind = "enhanced"
  /\ ~fn.done
  /\ LET r == calculate_lead_score_enhanced(fn.ld)
     IN  fn' = [ fn EXCEPT !.done = TRUE, !.score = r.score, !.tier = r.tier ]
  /\ UNCHANGED run_vars

CallSeo ==
  /\ fn.kind = "seo"
  /\ ~fn.done
  /\ LET r == calculate_seo_opportunity_score(fn.ld)
     IN  fn' = [ fn EXCEPT !.done = TRUE, !.score = r.score, !.tier = r.tier ]
  /\ UNCHANGED run_vars

\* the two functions on any dictionary, and the run of one probe, which
\* stores what the first returns on the lead it builds
NextScore == CallEnhanced \/ CallSeo \/ NextProbe

SpecScore == (InitScore \/ InitProbe) /\ [][NextScore]_vars


\* ------------------------------------------------------------------------
\* Calls examined on their own.  The call and what it has returned so far
\* are held in fn; the variables of the run are not used.
\* ------------------------------------------------------------------------
InitCall(c) ==
  /\ mode = "standard"
  /\ max_leads = 1
  /\ n_regions = 0
  /\ n_queries = 1
  /\ pc = "call"
  /\ qi = 1
  /\ ri = 0
  /\ queue = << >>
  /\ processed_domains = {}
  /\ leads = << >>
  /\ rejected_domains = << >>
  /\ stats = [ domains_probed |-> 0, leads_generated |-> 0,
               domains_rejected |-> 0 ]
  /\ domain_ranks = << >>
  /\ handed = {}
  /\ last = NoTrace
  /\ fn = c

\* ------------------------------------------------------------------------
\* WebCrawler.calculate_spam_confidence applied to any signal list: up to
\* MaxTagCount signals of each tag, with or without an untagged
\* suspicious-path signal and a hidden-content signal (tagged 100%).
\* ------------------------------------------------------------------------
InitSpam ==
  \E g \in SignalBags :
    InitCall([ kind |-> "spam_confidence", signals |-> g, done |-> FALSE,
               result |-> [ recommendation |-> "None" ] ])

\* crawler.py:409-441, with the dictionary the function returns
CallSpamConfidence ==
  /\ fn.kind = "spam_confidence"
  /\ ~fn.done
  /\ LET sa == calculate_spam_confidence(fn.signals)
     IN  fn' = [ fn EXCEPT
                   !.done = TRUE,
                   !.result =
                     [ avg_confidence |-> avg_confidence(sa),
                       high_confidence_count |-> sa.high_confidence_count,
                       medium_confidence_count |-> sa.medium_confidence_count,
                       low_confidence_count |-> sa.low_confidence_count,
                       total_signals |-> sa.total_signals,
                       recommendation |-> recommendation(sa) ] ]
  /\ UNCHANGED run_vars

SpecSpam == InitSpam /\ [][CallSpamConfidence]_vars

\* ------------------------------------------------------------------------
\* crawler.probe_domains: one WebCrawler, hence one semaphore, for the whole
\* batch; every probe_domain gathers one _crawl_page task per probe path.
\* fn holds the free permits of the semaphore, the position of every task
\* and, once the gathers have finished, the probes returned.  Tasks are
\* numbered domain by domain and path by path, the order in which the event
\* loop creates and first runs them: task t fetches path
\* ((t - 1) % NumPaths) + 1 of domain ((t - 1) \div NumPaths) + 1.
\* ------------------------------------------------------------------------
\* config.FETCH['max_concurrent'] is 5 and a batch holds up to 20 domains
\* with 9 probe paths each; the batch is scaled down
FETCH_max_concurrent == 1
MaxBatch == 2

\* what `session.get(...)` / `response.text()` does for one page: a response
\* with a status, asyncio.TimeoutError, or another exception with its args
FetchEvents ==
  { [ kind |-> "response", status |-> 200, args |-> << >> ],
    [ kind |-> "response", status |-> 404, args |-> << >> ],
    [ kind |-> "TimeoutError", status |-> 0, args |-> << >> ],
    [ kind |-> "Exception", status |-> 0,
      args |-> << "Cannot connect to host" >> ],
    [ kind |-> "Exception", status |-> 0, args |-> << >> ] }

\* str(e) of an exception: its single argument, the empty string without one
Str(e) == IF e.args = << >> THEN "" ELSE e.args[1]

\* crawler.py:111-146, the CrawlResult _crawl_page returns
CrawlResult(path, ev) ==
  IF ev.kind = "response"
    THEN [ path |-> path, status_code |-> ev.status, error |-> "None",
           has_content |-> TRUE ]
  ELSE IF ev.kind = "TimeoutError"
    THEN [ path |-> path, status_code |-> 0, error |-> "timeout",
           has_content |-> FALSE ]
  ELSE [ path |-> path, status_code |-> 0, error |-> Str(ev),
         has_content |-> FALSE ]

\* page fetches in flight: tasks inside `async with self.semaphore`
InFlight(c) == { t \in DOMAIN c.task : c.task[t].at = "fetching" }

InFlightOf(c, d) ==
  { t \in InFlight(c) : ((t - 1) \div NumPaths) + 1 = d }

batch_max_concurrent_doubled(n) == FETCH_max_concurrent * 2

\* lead_finder.py:410
batch_max_concurrent(n) == Min(n, FETCH_max_concurrent * 2)

\* crawler.py:31 and 552-554: WebCrawler(max_concurrent) with its tasks
Crawler(kind, urls, max_concurrent) ==
  [ kind |-> kind, urls |-> urls, max_concurrent |-> max_concurrent,
    semaphore |-> max_concurrent,
    task |-> [ t \in 1..(Len(urls) * NumPaths) |-> [ at |-> "waiting" ] ],
    probes |-> << >>, done |-> FALSE ]

\* crawler.py:87-95, the DomainProbe of domain d after its gather
probe_of(c, d) ==
  LET results == [ i \in 1..NumPaths |->
                     c.task[(d - 1) * NumPaths + i].result ]
      ok == { i \in 1..NumPaths : results[i].status_code < 400 }
  IN  [ domain |-> extract_domain(c.urls[d]), root_url |-> c.urls[d],
        pages |-> results, total_pages |-> NumPaths,
        successful_pages |-> Cardinality(ok), errors |-> << >> ]

\* lead_finder.py:399-414, for a batch of 1..MaxBatch new domains
InitCrawl ==
  \E n \in 1..MaxBatch :
    InitCall(Crawler("probe_domains", [ d \in 1..n |-> Host(d, "a.com") ],
                     batch_max_concurrent(n)))

\* one probe_domain under a crawler of any size the orchestrator passes
InitFetch ==
  \E l \in { Host(0, "a.com"), Host(0, "b.com") },
     m \in 1..(FETCH_max_concurrent * 2) :
    InitCall(Crawler("probe_domain", << l >>, m))

\* crawler.py:111 `async with self.semaphore`: the longest-waiting task
\* enters when a permit is free
Acquire ==
  /\ fn.kind \in { "probe_domains", "probe_domain" }
  /\ fn.semaphore > 0
  /\ \E t \in DOMAIN fn.task :
       /\ fn.task[t].at = "waiting"
       /\ \A u \in 1..(t - 1) : fn.task[u].at # "waiting"
       /\ fn' = [ fn EXCEPT !.semaphore = @ - 1,
                            !.task[t] = [ at |-> "fetching" ] ]
  /\ UNCHANGED run_vars

\* crawler.py:114-146: the fetch of task t ends with event ev; the result is
\* returned and the permit released
FetchEnds(t, ev) ==
  /\ fn.kind \in { "probe_domains", "probe_domain" }
  /\ t \in DOMAIN fn.task
  /\ fn.task[t].at = "fetching"
  /\ fn' = [ fn EXCEPT
               !.semaphore = @ + 1,
               !.task[t] =
                 [ at |-> "returned", event |-> ev,
                   result |-> CrawlResult(((t - 1) % NumPaths) + 1, ev) ] ]
  /\ UNCHANGED run_vars

\* crawler.py:84-99 and 554-564: every gather has finished
Gathered ==
  /\ fn.kind \in { "probe_domains", "probe_domain" }
  /\ ~fn.done
  /\ \A t \in DOMAIN fn.task : fn.task[t].at = "returned"
  /\ fn' = [ fn EXCEPT !.done = TRUE,
                       !.probes = [ d \in 1..Len(fn.urls) |-> probe_of(fn, d) ] ]
  /\ UNCHANGED run_vars

\* a batch probe; what a fetch returns matters only as answered or failed
NextCrawl ==
  \/ Acquire
  \/ \E t \in 1..(MaxBatch * NumPaths),
        ev \in { e \in FetchEvents : e.status # 404 /\ e.kind # "Exception" } :
       FetchEnds(t, ev)
  \/ Gathered

SpecCrawl == InitCrawl /\ [][NextCrawl]_vars

NextFetch ==
  \/ Acquire
  \/ \E t \in 1..NumPaths, ev \in FetchEvents : FetchEnds(t, ev)
  \/ Gathered

SpecFetch == InitFetch /\ [][NextFetch]_vars

\* ------------------------------------------------------------------------
\* PageSpeedInsights.analyze_url, called by _process_domain_probe for the
\* probe at the head of the batch (lead_finder.py:528-530).  fn holds the
\* client (rotation index over its keys, the cache entry of the URL) and
\* the call: the loop counter, the requests sent, and what it returned.
\* ------------------------------------------------------------------------
\* pagespeed.py:51
max_retries == 3
MaxKeys == 2
\* pagespeed.py:48, in hours
cache_ttl == 24

\* one `requests.get` with raise_for_status, response.json and the parse:
\* a result with a performance score (None when the response has none), a
\* requests.RequestException (status 0 for a timeout or a connection error,
\* else the status raise_for_status turned into an HTTPError), or another
\* exception
PsiEvents ==
  { [ kind |-> "ok", perf |-> p, status |-> 200 ] :
      p \in { None, PerfCritical, PerfModerate } }
    \cup { [ kind |-> "RequestException", perf |-> None, status |-> c ] :
             c \in { 0, 500, 429, 404 } }
    \cup { [ kind |-> "Exception", perf |-> None, status |-> 0 ] }

\* pagespeed.py:65-71, called with a RequestException
should_retry(attempt) == attempt < max_retries

cache_after_any(c, ev) == [ present |-> TRUE, fresh |-> TRUE, perf |-> ev.perf ]

is_fresh_inclusive(elapsed) == elapsed <= cache_ttl

\* pagespeed.py:135, `time.time() - timestamp < self.cache_ttl`
is_fresh(elapsed) == elapsed < cache_ttl

\* pagespeed.py:168-169: only a parsed result is stored
cache_after(c, ev) ==
  IF ev.kind = "ok" THEN [ present |-> TRUE, fresh |-> TRUE, perf |-> ev.perf ]
  ELSE c

\* a client with 1..MaxKeys keys whose cache has no entry for the URL, a
\* fresh one or one older than cache_ttl
InitPsi ==
  /\ mode = "standard"
  /\ max_leads = 1
  /\ n_regions = 0
  /\ n_queries = 1
  /\ pc = "batch"
  /\ qi = 1
  /\ ri = 0
  /\ queue = << [ domain |-> extract_domain(Host(0, "a.com")),
                 root_url |-> Host(0, "a.com") ] >>
  /\ processed_domains = {}
  /\ leads = << >>
  /\ rejected_domains = << >>
  /\ stats = [ domains_probed |-> 0, leads_generated |-> 0,
               domains_rejected |-> 0 ]
  /\ domain_ranks = << >>
  /\ handed = { extract_domain(Host(0, "a.com")) }
  /\ last = NoTrace
  /\ \E n \in 1..MaxKeys,
        c \in { [ present |-> FALSE, fresh |-> FALSE, perf |-> None ],
                [ present |-> TRUE, fresh |-> TRUE, perf |-> PerfModerate ],
                [ present |-> TRUE, fresh |-> FALSE, perf |-> PerfModerate ] } :
       fn = [ kind |-> "analyze_url", key_count |-> n, current_key_index |-> 0,
              cache |-> c, cache0 |-> c, at |-> "start", attempt |-> 0,
              requests |-> 0, failed |-> FALSE,
              result |-> [ none |-> TRUE, perf |-> None ],
              \* status of the latest failed attempt, the number of the
              \* call, the hours since the entry was stored, and what the
              \* first call returned and left in the rotation
              error |-> None, call |-> 1, elapsed |-> 0,
              first |-> [ result |-> [ none |-> TRUE, perf |-> None ],
                          current_key_index |-> 0 ] ]

\* pagespeed.py:131-137
CacheLookup ==
  /\ fn.kind = "analyze_url"
  /\ fn.at = "start"
  /\ queue # << >>
  /\ fn' = IF fn.cache.present /\ fn.cache.fresh
             THEN [ fn EXCEPT !.at = "done",
                              !.result = [ none |-> FALSE,
                                           perf |-> fn.cache.perf ] ]
             ELSE [ fn EXCEPT !.at = "try" ]
  /\ UNCHANGED run_vars

\* pagespeed.py:140-197: one pass of `for attempt in range(max_retries + 1)`
Request(ev) ==
  /\ fn.kind = "analyze_url"
  /\ fn.at = "try"
  /\ queue # << >>
  /\ fn.attempt <= max_retries
  /\ LET sent == [ fn EXCEPT
                     !.requests = @ + 1,
                     !.current_key_index = (@ + 1) % fn.key_count ]
     IN  fn' =
           IF ev.kind = "ok"
             THEN [ sent EXCEPT !.at = "done",
                                !.cache = cache_after(@, ev),
                                !.result = [ none |-> FALSE, perf |-> ev.perf ] ]
           ELSE IF /\ ev.kind = "RequestException"
                   /\ should_retry(fn.attempt)
                   /\ fn.attempt + 1 <= max_retries
             THEN [ sent EXCEPT !.attempt = @ + 1, !.error = ev.status ]
           ELSE [ sent EXCEPT !.at = "done", !.failed = TRUE,
                              !.error = ev.status,
                              !.result = [ none |-> TRUE, perf |-> None ],
                              !.cache = cache_after(@, ev) ]
  /\ UNCHANGED run_vars

\* a second analyze_url with the same url, strategy and category, `elapsed`
\* hours after the first one stored its result
SecondCall(elapsed) ==
  /\ fn.kind = "analyze_url"
  /\ fn.at = "done"
  /\ fn.call = 1
  /\ ~fn.failed
  /\ fn.requests > 0
  /\ queue # << >>
  /\ LET c == [ fn.cache EXCEPT !.fresh = is_fresh(elapsed) ]
     IN  fn' = [ fn EXCEPT
                   !.call = 2, !.elapsed = elapsed, !.at = "start",
                   !.attempt = 0, !.requests = 0, !.error = None,
                   !.result = [ none |-> TRUE, perf |-> None ],
                   !.cache = c, !.cache0 = c,
                   !.first = [ result |-> fn.result,
                               current_key_index |-> fn.current_key_index ] ]
  /\ UNCHANGED run_vars

\* pagespeed.py:406-444 and lead_finder.py:528-633: the rest of the pipeline
\* for the probe, on a site with or without dated markup, with the score the
\* call returned or no 'psi' entry
ContinueProbe ==
  /\ fn.kind = "analyze_url"
  /\ fn.at = "done"
  /\ \E h \in { NoHtml, Html50 } :
       ProcessProbe(Site(OwnerPages, FALSE, "other", NoSignals,
                         IF fn.result.none THEN None ELSE fn.result.perf,
                         h, NoExtras))

NextPsi ==
  \/ CacheLookup
  \/ \E ev \in PsiEvents : Request(ev)
  \/ \E e \in { 0, cache_ttl - 1, cache_ttl, cache_ttl + 1 } : SecondCall(e)
  \/ ContinueProbe

SpecPsi == InitPsi /\ [][NextPsi]_vars

\* ------------------------------------------------------------------------
\* _process_domain_probe on the probe of one domain, with the site the
\* probe met kept in fn beside the result.
\* ------------------------------------------------------------------------
InitSite ==
  /\ mode = "standard"
  /\ max_leads = 1
  /\ n_regions = 0
  /\ n_queries = 1
  /\ pc = "batch"
  /\ qi = 1
  /\ ri = 0
  /\ queue = << [ domain |-> extract_domain(Host(0, "a.com")),
                 root_url |-> Host(0, "a.com") ] >>
  /\ processed_domains = {}
  /\ leads = << >>
  /\ rejected_domains = << >>
  /\ stats = [ domains_probed |-> 0, leads_generated |-> 0,
               domains_rejected |-> 0 ]
  /\ domain_ranks = << >>
  /\ handed = { extract_domain(Host(0, "a.com")) }
  /\ last = NoTrace
  /\ \E s \in ProbeSites : fn = [ kind |-> "site", site |-> s ]

ProcessSite ==
  /\ fn.kind = "site"
  /\ ProcessProbe(fn.site)

SpecSite == InitSite /\ [][ProcessSite]_vars

\* ------------------------------------------------------------------------
\* WebCrawler.extract_technical_info over the pages of a probe, one page of
\* the for loop per step.  A page is its status, whether it has content, the
\* markers and version strings its content carries, and the kind of its URL.
\* ------------------------------------------------------------------------
TechPages ==
  { [ has_content |-> TRUE, status_code |-> 200, url |-> "home",
      wordpress |-> wp, wp_version |-> v, jquery_version |-> j, php |-> FALSE ] :
      wp \in BOOLEAN, v \in { "None", "5.0", "6.1" },
      j \in { "None", "1.12", "3.6" } }
  \cup
  { [ has_content |-> c, status_code |-> st, url |-> u, wordpress |-> TRUE,
      wp_version |-> "6.1", jquery_version |-> "3.6", php |-> TRUE ] :
      c \in BOOLEAN, st \in { 0, 200, 301, 404 },
      u \in { "readme.html", "wp-json" } }

\* crawler.py:167-205: the body of the loop over pages
tech_page(info, page) ==
  IF ~page.has_content \/ page.status_code >= 400 THEN info
  ELSE [ cms |-> IF page.wordpress THEN "WordPress" ELSE info.cms,
         wp_version |->
           IF page.wordpress /\ page.wp_version # "None"
             THEN page.wp_version ELSE info.wp_version,
         jquery_version |->
           IF page.wordpress /\ page.jquery_version # "None"
             THEN page.jquery_version ELSE info.jquery_version,
         php_banner |-> info.php_banner \/ page.php,
         readme_accessible |->
           info.readme_accessible
             \/ (page.url = "readme.html" /\ page.status_code = 200),
         wp_json_accessible |->
           info.wp_json_accessible
             \/ (page.url = "wp-json" /\ page.status_code = 200) ]

InitTech ==
  InitCall([ kind |-> "tech", pages |-> << >>,
             tech_info |-> [ cms |-> "None", wp_version |-> "None",
                             jquery_version |-> "None", php_banner |-> FALSE,
                             readme_accessible |-> FALSE,
                             wp_json_accessible |-> FALSE ] ])

TechStep(page) ==
  /\ fn.kind = "tech"
  /\ Len(fn.pages) < NumPaths
  /\ fn' = [ fn EXCEPT !.pages = Append(@, page),
                       !.tech_info = tech_page(@, page) ]
  /\ UNCHANGED run_vars

SpecTech == InitTech /\ [][\E page \in TechPages : TechStep(page)]_vars

\* ------------------------------------------------------------------------
\* WebCrawler.extract_security_info over the pages of a probe, one page of
\* the for loop per step.  A page is its status, whether it has content, the
\* scheme of its URL and the number of src=/href= references to http:// in
\* its content; an asset is the pair of its page and its position there.
\* ------------------------------------------------------------------------
AssetLimit == 5

SecurityPages ==
  { [ has_content |-> st # 0, status_code |-> st, scheme |-> sch,
      http_assets |-> n ] :
      st \in { 0, 200, 404 }, sch \in { "http", "https" }, n \in 0..MaxAssets }

\* crawler.py:227-241: the body of the loop over pages; k is the page's index
security_page(info, page, k) ==
  IF ~page.has_content \/ page.status_code >= 400 THEN info
  ELSE LET found == page.scheme = "https" /\ page.http_assets > 0
           taken == IF page.http_assets < AssetLimit
                      THEN page.http_assets ELSE AssetLimit
       IN  [ https |-> info.https /\ page.scheme # "http",
             mixed_content |-> info.mixed_content \/ found,
             hsts |-> info.hsts,
             insecure_assets |->
               IF found
                 THEN info.insecure_assets
                        \o [ a \in 1..taken |-> << k, a >> ]
                 ELSE info.insecure_assets ]

InitSecurity ==
  InitCall([ kind |-> "security", pages |-> << >>,
             security_info |-> [ https |-> TRUE, mixed_content |-> FALSE,
                                 hsts |-> FALSE, insecure_assets |-> << >> ] ])

SecurityStep(page) ==
  /\ fn.kind = "security"
  /\ Len(fn.pages) < NumPaths
  /\ fn' = [ fn EXCEPT !.pages = Append(@, page),
                       !.security_info =
                          security_page(@, page, Len(fn.pages) + 1) ]
  /\ UNCHANGED run_vars

SpecSecurity ==
  InitSecurity /\ [][\E page \in SecurityPages : SecurityStep(page)]_vars

\* ------------------------------------------------------------------------
\* A standard run of one query: its batches (one per region, or one), the
\* probe loop over each and the sequential fallback.
\* ------------------------------------------------------------------------
InitBatch ==
  /\ mode = "standard"
  /\ max_leads \in 1..(HardCutoff + 1)
  /\ n_regions \in 0..MaxRegions
  /\ n_queries = 1
  /\ pc = "loop"
  /\ qi = 1
  /\ ri = 0
  /\ queue = << >>
  /\ processed_domains = {}
  /\ leads = << >>
  /\ rejected_domains = << >>
  /\ stats = [ domains_probed |-> 0, leads_generated |-> 0,
               domains_rejected |-> 0 ]
  /\ domain_ranks = << >>
  /\ handed = {}
  /\ last = NoTrace
  /\ fn = NoFn

SpecBatch == InitBatch /\ [][StandardNext]_vars

\* ------------------------------------------------------------------------
\* Properties
\* ------------------------------------------------------------------------
\* [l.domain for l in self.leads]
LeadDomains == { leads[i].domain : i \in 1..Len(leads) }

\* the latest pipeline call reached _validate_lead
Validated == last.stage \in { "invalid", "scored" }

\* C1: after a standard run has ended, every domain whose probe the batch
\* probe returned is in exactly one of the accepted leads and the rejected
\* domains: none is missing from both, none is in both.
C1_HandedDomainsSettled ==
  (mode = "standard" /\ pc = "done") =>
    \A d \in handed :
      /\ d \in LeadDomains \/ d \in DOMAIN rejected_domains
      /\ ~(d \in LeadDomains /\ d \in DOMAIN rejected_domains)

\* C2: in every state of a run no domain is both an accepted lead and a
\* rejected domain, and no domain is twice in the accepted leads.
C2_AcceptedRejectedDisjoint ==
  /\ LeadDomains \cap DOMAIN rejected_domains = {}
  /\ \A i, j \in 1..Len(leads) : leads[i].domain = leads[j].domain => i = j

\* C3: each scoring function returns a score between 0 and 100 for every
\* dictionary, and every accepted lead carries a score between 0 and 100.
C3_ScoreInRange ==
  /\ fn.done => (0 <= fn.score /\ fn.score <= 100)
  /\ \A i \in 1..Len(leads) : 0 <= leads[i].score /\ leads[i].score <= 100

\* C3 witness: the standard function was called on a dictionary whose
\* weights sum above 100 and returned 100
C3_Witness ==
  /\ fn.done
  /\ fn.kind = "enhanced"
  /\ EnhancedRawScore(fn.ld) > 100
  /\ fn.score = 100

TierRank(t) == CASE t = "A" -> 3 [] t = "B" -> 2 [] t = "C" -> 1 [] OTHER -> 0

C5_PolicyByMode ==
  last.stage = "scored" =>
    LET policy == IF mode = "seo"
                    THEN calculate_seo_opportunity_score(last.ld)
                    ELSE calculate_lead_score_enhanced(last.ld)
    IN  last.score = policy.score /\ last.tier = policy.tier

\* C6: in a standard run, for a domain whose measurement returned a
\* performance score p in 0..100, the override is set, with reason
\* "perf_low", exactly when p <= 45.
C6_OverrideIffPerfLow ==
  (mode = "standard" /\ Validated /\ last.ld.psi_perf # None) =>
    /\ last.critical <=> (last.ld.psi_perf <= 45)
    /\ \A i \in 1..Len(leads) :
         leads[i].domain = last.ld.domain =>
           ((leads[i].performance_override_reason = "perf_low")
              <=> (last.ld.psi_perf <= 45))

\* C7: a domain with the override active and the hidden-spam-content signal
\* among its hacked signals never becomes an accepted lead.
C7_OverrideKeepsHiddenSpamOut ==
  \A i \in 1..Len(leads) :
    ~(/\ leads[i].performance_override_reason = "perf_low"
      /\ leads[i].hacked_signals.hidden > 0)

\* C8: without an override, _validate_lead rejects a domain whose hacked
\* signals contain the hidden-spam-content signal, whatever the others are.
C8_HiddenSpamRejected ==
  (Validated /\ ~last.critical /\ last.ld.hacked_signals.hidden > 0) =>
    last.stage = "invalid"

C10_AdmissionFloor ==
  /\ (mode = "standard" /\ last.stage = "scored") =>
       LET d == last.ld.domain
       IN  IF last.score >= 40 \/ last.critical
             THEN d \in LeadDomains /\ d \notin DOMAIN rejected_domains
             ELSE /\ d \notin LeadDomains
                  /\ d \in DOMAIN rejected_domains
                  /\ rejected_domains[d] = "low_score_" \o ToString(last.score)
  /\ mode = "standard" =>
       \A i \in 1..Len(leads) :
         \/ leads[i].score >= 40
         \/ leads[i].performance_override_reason = "perf_low"

\* C10 witness: a lead below the floor, admitted by the override, and
\* (in another run) a validated domain below the floor, rejected
C10_Witness ==
  /\ last.stage = "scored"
  /\ last.score < 40
  /\ last.critical
  /\ \E i \in 1..Len(leads) :
       /\ leads[i].domain = last.ld.domain
       /\ leads[i].score < 40
       /\ leads[i].performance_override_reason = "perf_low"


\* C11: a domain whose root URL is a platform subdomain is never an
\* accepted lead: _validate_lead rejects it at step 1, with or without the
\* critical-performance override.
C11_PlatformNeverAdmitted ==
  /\ \A i \in 1..Len(leads) :
       ~leads[i].platform_subdomain /\ ~is_platform_subdomain(leads[i].domain)
  /\ (Validated /\ is_platform_subdomain(last.ld.domain)) =>
       /\ last.stage = "invalid"
       /\ ~validate_lead(last.ld, TRUE)
       /\ last.ld.domain \notin LeadDomains
       /\ last.ld.domain \in DOMAIN rejected_domains
       /\ rejected_domains[last.ld.domain] = "failed_validation"

\* C11 witness: a platform subdomain that answered (it has evidence URLs)
\* was rejected by validation
C11_Witness ==
  /\ last.stage = "invalid"
  /\ is_platform_subdomain(last.ld.domain)
  /\ last.ld.evidence_urls # << >>
  /\ last.ld.domain \in DOMAIN rejected_domains

\* C12: a prior-scan domain that reaches per-domain processing is rejected
\* before any extractor or scoring call, its rejection is recorded in the
\* rejected domains with a previously-scanned reason, and it is never an
\* accepted lead.
C12_PriorScanRecorded ==
  /\ \A i \in 1..Len(leads) :
       leads[i].domain \notin PREVIOUSLY_SCANNED_DOMAINS
  /\ last.stage = "skipped" =>
       /\ last.ld.domain \in DOMAIN rejected_domains
       /\ rejected_domains[last.ld.domain] = "previously_scanned"

\* C17: a standard run called with max_leads = N ends with at most N
\* accepted leads.
C17_AtMostMaxLeads ==
  (mode = "standard" /\ pc = "done") => Len(leads) <= max_leads

C19_FallbackUsesPipeline ==
  \A d \in DOMAIN rejected_domains :
    /\ d \in processed_domains
    /\ rejected_domains[d] # "fallback_error"

\* C13: calculate_spam_confidence returns the average
\* (100*h + 60*m + 20*l) / (h + m + l) over the h, m, l signals tagged 100%,
\* 60% and 20% (0 when there is none) and the recommendation REJECT when the
\* average is at least 90, REVIEW when it is at least 40 and below 90,
\* ACCEPT otherwise; two 100% signals and one 60% signal give 86.67 and
\* REVIEW.
C13_AverageAndBands ==
  (fn.kind = "spam_confidence" /\ fn.done) =>
    LET g == fn.signals
        h == g.spam100 + g.hidden
        m == g.spam60
        l == g.spam20
        n == h + m + l
        total == 100 * h + 60 * m + 20 * l
        avg == fn.result.avg_confidence
        rec == fn.result.recommendation
    IN  /\ avg.den > 0
        /\ IF n = 0 THEN avg.num = 0 ELSE avg.num * n = total * avg.den
        /\ IF n > 0 /\ total >= 90 * n
             THEN rec = "REJECT - High confidence spam"
           ELSE IF n > 0 /\ total >= 40 * n
             THEN rec = "REVIEW - Medium confidence, needs human review"
           ELSE rec \in { "ACCEPT - Low confidence, likely false positive",
                          "ACCEPT - No spam detected" }
        /\ (h = 2 /\ m = 1 /\ l = 0) =>
             \* 86.67 is the average rounded to hundredths
             /\ (200 * avg.num + avg.den) \div (2 * avg.den) = 8667
             /\ rec = "REVIEW - Medium confidence, needs human review"

\* C13 witness: the function returned for two 100% signals and one 60%
\* signal
C13_Witness ==
  /\ fn.kind = "spam_confidence"
  /\ fn.done
  /\ fn.signals.spam100 = 2 /\ fn.signals.hidden = 0
  /\ fn.signals.spam60 = 1 /\ fn.signals.spam20 = 0
  /\ fn.result.recommendation = "REVIEW - Medium confidence, needs human review"

\* C14 as stated: whichever fetches time out or raise, probe_domain returns
\* one page result per probe path, every failed fetch as a result with
\* status 0 and a non-empty error string, every other fetch with its
\* response.
C14_FailedFetchNonEmptyError ==
  (fn.kind = "probe_domain" /\ fn.done) =>
    /\ Len(fn.probes) = 1
    /\ Len(fn.probes[1].pages) = NumPaths
    /\ \A i \in 1..NumPaths :
         LET pg == fn.probes[1].pages[i]
         IN  /\ pg.path = i
             /\ ~pg.has_content =>
                  (pg.status_code = 0 /\ pg.error \notin { "", "None" })

C16_PerDomainCeiling ==
  fn.kind = "probe_domains" =>
    \A d \in 1..Len(fn.urls) :
      Cardinality(InFlightOf(fn, d)) <= FETCH_max_concurrent

\* C20: a call of analyze_url sends at most max_retries + 1 = 4 requests and
\* has returned once the fourth is answered; when every attempt failed it
\* returns None and leaves the cache as it was, and the pipeline goes on
\* without a performance score: the domain is validated and scored, not
\* rejected for an error.
C20_BoundedRetries ==
  fn.kind = "analyze_url" =>
    /\ max_retries + 1 = 4
    /\ fn.requests <= max_retries + 1
    /\ fn.requests = max_retries + 1 => fn.at = "done"
    /\ (fn.at = "done" /\ fn.failed) =>
         /\ fn.result.none
         /\ fn.cache = fn.cache0
         /\ ~fn.cache0.present => ~fn.cache.present
    /\ (fn.at = "done" /\ fn.failed /\ queue = << >>) =>
         /\ Validated
         /\ last.ld.psi_perf = None
         /\ ~last.critical
         /\ last.ld.domain \in DOMAIN rejected_domains =>
              rejected_domains[last.ld.domain] # "processing_error"
         /\ (last.stage = "scored" /\ last.score >= SCORE_MIN) =>
              last.ld.domain \in LeadDomains

\* C20 witness: four requests failed, nothing was cached, and the domain was
\* accepted on its other signals
C20_Witness ==
  /\ fn.kind = "analyze_url"
  /\ fn.at = "done"
  /\ fn.failed
  /\ fn.requests = max_retries + 1
  /\ ~fn.cache.present
  /\ queue = << >>
  /\ last.ld.psi_perf = None
  /\ last.ld.domain \in LeadDomains

\* C21: analyze_url retries a failed attempt only when the failure is
\* retryable (a timeout or connection error, an HTTP 5xx, or HTTP 429, 408
\* or 413): after a failure with HTTP 400, 403 or 404 the call has ended,
\* after that single attempt; and each request uses the next credential in
\* round-robin order.
C21_RetryOnlyRetryable ==
  (fn.kind = "analyze_url" /\ fn.call = 1) =>
    /\ fn.error \in { 400, 403, 404 } => (fn.at = "done" /\ fn.requests = 1)
    /\ fn.current_key_index = fn.requests % fn.key_count

\* C22: after a successful analyze_url, a later call with the same url,
\* strategy and category made less than 24 hours afterwards returns the
\* same result without a request and without taking a credential from the
\* rotation; a call made 24 hours or more afterwards issues a new request.
C22_CacheWindow ==
  (fn.kind = "analyze_url" /\ fn.call = 2 /\ fn.at = "done") =>
    IF fn.elapsed < 24
      THEN /\ fn.result = fn.first.result
           /\ fn.requests = 0
           /\ fn.current_key_index = fn.first.current_key_index
      ELSE fn.requests >= 1

\* C22 witness: a second call one hour short of a day returned the first
\* call's result, which carried a score, with no request
C22_Witness ==
  /\ fn.kind = "analyze_url"
  /\ fn.call = 2
  /\ fn.at = "done"
  /\ fn.elapsed = 23
  /\ fn.requests = 0
  /\ ~fn.result.none
  /\ fn.result.perf = PerfCritical

\* C23: a probe with no successfully fetched page (every page is a status-0
\* transport failure or has a status of 400 or more) yields no evidence URL
\* and its domain is rejected by step 1 of the validation; and every
\* evidence URL of an accepted lead is the URL of a page that returned a
\* response with a status below 400.
C23_EvidenceNeedsResponse ==
  (fn.kind = "site" /\ queue = << >> /\ last.stage # "error") =>
    LET pages == fn.site.pages
        answered(i) == status_code(pages[i]) > 0 /\ status_code(pages[i]) < 400
    IN  /\ (\A i \in 1..Len(pages) : ~answered(i)) =>
             /\ last.ld.evidence_urls = << >>
             /\ last.stage = "invalid"
             /\ Step1Rejects(last.ld)
        /\ \A k \in 1..Len(leads) :
             \A e \in 1..Len(leads[k].evidence_urls) :
               answered(leads[k].evidence_urls[e])

\* C24: under the standard policy the score is min(100, sum of the fixed
\* weights of the signals present), the builder adding at most one of 20
\* (Divi) and 12 (Elementor, WPBakery), for every dictionary whose locale
\* bonus is absent or the fixed 10; a dictionary with exactly http_only, the
\* builder Divi and missing_meta_desc scores 15 + 20 + 6 = 41 with tier C.
C24_StandardScoreIsCappedSum ==
  (fn.kind = "enhanced" /\ fn.done /\ fn.ld.nyc_bonus \in { 0, 10 }) =>
    LET d == fn.ld
        P(flag, w) == IF flag \in d.flags THEN w ELSE 0
        Has(v) == v # None /\ v # 0
        builder == IF d.builder = "Divi" THEN 20
                   ELSE IF d.builder \in { "Elementor", "WPBakery" } THEN 12
                   ELSE 0
        sum == (IF Has(d.psi_perf_desktop) /\ d.psi_perf_desktop <= 60
                  THEN 25 ELSE 0)
             + (IF Has(d.ttfb_ms) /\ d.ttfb_ms >= 1200 THEN 15 ELSE 0)
             + (IF Has(d.lcp_ms) /\ d.lcp_ms >= 4000 THEN 15 ELSE 0)
             + (IF { "mixed_content", "http_only" } \cap d.flags # {}
                  THEN 15 ELSE 0)
             + P("no_hsts", 5) + builder + P("old_jquery", 10)
             + P("bootstrap_v3", 6) + P("themepunch_detected", 15)
             + P("fouc_issues", 10) + P("old_jquery_detected", 8)
             + P("console_errors", 5) + P("js_loading_issues", 6)
             + P("missing_title", 8) + P("missing_meta_desc", 6)
             + P("missing_schema", 5) + P("accessibility_poor", 8)
             + P("copyright_outdated", 6)
             + (IF d.broken_links_count >= 2 THEN 10 ELSE 0)
             + d.nyc_bonus
    IN  /\ fn.score = (IF sum < 100 THEN sum ELSE 100)
        /\ builder <= 20
        /\ (/\ d.flags = { "http_only", "missing_meta_desc" }
            /\ d.builder = "Divi"
            /\ d.broken_links_count < 2 /\ d.nyc_bonus = 0
            /\ d.psi_perf_desktop = None /\ d.ttfb_ms = None
            /\ d.lcp_ms = None) =>
             (fn.score = 41 /\ fn.tier = "C")

\* C24 witness: the function returned 41 and tier C for http_only, Divi and
\* missing_meta_desc
C24_Witness ==
  /\ fn.kind = "enhanced"
  /\ fn.done
  /\ fn.ld.flags = { "http_only", "missing_meta_desc" }
  /\ fn.ld.builder = "Divi"
  /\ fn.ld.broken_links_count < 2 /\ fn.ld.nyc_bonus = 0
  /\ fn.ld.psi_perf_desktop = None
  /\ fn.score = 41
  /\ fn.tier = "C"

\* C25: in a standard run, for a domain whose performance measurement
\* returned a result, a measured performance score at or below the threshold
\* of 60 adds 25 to the score that decides the lead's tier and admission:
\* the score is the capped sum of 25 and the weights of the other signals.
C25_MeasuredPerformanceScores ==
  (/\ fn.kind = "site"
   /\ queue = << >>
   /\ last.stage = "scored"
   /\ last.ld.psi_perf # None
   /\ last.ld.psi_perf <= 60) =>
    LET others == EnhancedRawScore([ last.ld EXCEPT !.psi_perf_desktop = None ])
        expected == IF others + 25 < 100 THEN others + 25 ELSE 100
    IN  /\ last.score = expected
        /\ last.tier = EnhancedTier(expected)
        /\ \A k \in 1..Len(leads) : leads[k].score = expected

\* C26: each domain's entry in the rejected-domains map is written at most
\* once per run: no step changes or removes the reason of a domain already in
\* the map, and a step that records a rejection reason for the domain at the
\* head of the batch finds no entry of that domain in the map.
C26_RejectionWrittenOnce ==
  [][ /\ \A d \in DOMAIN rejected_domains :
           /\ d \in DOMAIN rejected_domains'
           /\ rejected_domains'[d] = rejected_domains[d]
      /\ (/\ queue # << >>
          /\ queue' = Tail(queue)
          /\ Head(queue).domain \in DOMAIN rejected_domains'
          /\ stats'.domains_rejected = stats.domains_rejected + 1
          /\ Head(queue).domain \notin PREVIOUSLY_SCANNED_DOMAINS)
         => Head(queue).domain \notin DOMAIN rejected_domains ]_vars

\* C27: in extract_technical_info over a sequence of pages, the CMS core
\* version and the script-library version reported are those of the first
\* successful page (in page order) on which each was found; a later page
\* that also carries a version string leaves the found value unchanged.
C27_FirstVersionWins ==
  fn.kind = "tech" =>
    LET ok(i) == /\ fn.pages[i].has_content
                 /\ fn.pages[i].status_code < 400
                 /\ fn.pages[i].wordpress
        wp == { i \in 1..Len(fn.pages) : ok(i) /\ fn.pages[i].wp_version # "None" }
        jq == { i \in 1..Len(fn.pages) :
                  ok(i) /\ fn.pages[i].jquery_version # "None" }
        first(found) == CHOOSE i \in found : \A j \in found : i <= j
    IN  /\ wp # {} => fn.tech_info.wp_version = fn.pages[first(wp)].wp_version
        /\ jq # {} =>
             fn.tech_info.jquery_version = fn.pages[first(jq)].jquery_version

\* C28: for any page set, the insecure-asset sample returned by
\* extract_security_info holds at most 5 URLs in total, however many HTTPS
\* pages contain plaintext-scheme asset references; the mixed-content flag
\* is true iff at least one such successful page exists.
C28_AssetSampleAtMostFive ==
  fn.kind = "security" =>
    /\ Len(fn.security_info.insecure_assets) <= 5
    /\ fn.security_info.mixed_content <=>
         \E i \in 1..Len(fn.pages) :
            /\ fn.pages[i].has_content
            /\ fn.pages[i].status_code < 400
            /\ fn.pages[i].scheme = "https"
            /\ fn.pages[i].http_assets > 0

\* C29: every lead in the accepted list of a standard run has owner_valid =
\* TRUE: a domain for which no successful page satisfied the ownership
\* predicate gets neither the performance analysis nor the outdated-site
\* analysis, so it scores 0 with no override, and it is rejected.
C29_LeadsAreOwnerValid ==
  fn.kind = "site" =>
    /\ \A k \in 1..Len(leads) : leads[k].owner_valid
    /\ (/\ queue = << >>
        /\ ~fn.site.raises
        /\ ~\E i \in 1..Len(fn.site.pages) :
               Successful(fn.site.pages[i]) /\ fn.site.pages[i] = "owner") =>
         /\ ~last.ld.owner_valid
         /\ last.ld.psi_perf = None
         /\ last.ld.flags = {} /\ last.ld.builder = "None"
         /\ last.ld.broken_links_count = 0 /\ last.ld.nyc_bonus = 0
         /\ calculate_lead_score_enhanced(last.ld).score = 0
         /\ last.score = 0
         /\ ~last.critical
         /\ ~last.accepted
         /\ leads = << >>
         /\ last.ld.domain \in DOMAIN rejected_domains

\* C29 witness: a site that answered, with a performance score and an
\* outdated-site analysis on offer but no owner page, was scored 0 and
\* rejected for its score
C29_Witness ==
  /\ fn.kind = "site"
  /\ queue = << >>
  /\ AnySuccessful(fn.site.pages)
  /\ fn.site.perf = PerfCritical
  /\ fn.site.html.html_ok
  /\ ~last.ld.owner_valid
  /\ last.stage = "scored"
  /\ leads = << >>
  /\ rejected_domains[last.ld.domain] = "low_score_0"

\* C30: for every signal list, the aggregate returned by
\* calculate_spam_confidence is either exactly 0 or lies in [20, 100]; it is
\* 0 exactly when no signal carries a 100%/60%/20% confidence tag, and the
\* untagged signals (suspicious paths) never change it: it is the average
\* over the tagged signals alone.
C30_AggregateZeroOrAtLeastTwenty ==
  (fn.kind = "spam_confidence" /\ fn.done) =>
    LET g == fn.signals
        tagged == g.spam100 + g.hidden + g.spam60 + g.spam20
        avg == fn.result.avg_confidence
    IN  /\ avg.den > 0
        /\ \/ avg.num = 0
           \/ (20 * avg.den <= avg.num /\ avg.num <= 100 * avg.den)
        /\ avg.num = 0 <=> tagged = 0
        /\ fn.result.total_signals = tagged
        /\ avg.num * tagged =
             (100 * (g.spam100 + g.hidden) + 60 * g.spam60 + 20 * g.spam20)
               * avg.den

\* C30 witness: the function returned 0 for a list of suspicious-path
\* signals only
C30_Witness ==
  /\ fn.kind = "spam_confidence"
  /\ fn.done
  /\ fn.signals.path > 0
  /\ fn.signals.spam100 + fn.signals.hidden + fn.signals.spam60
       + fn.signals.spam20 = 0
  /\ fn.result.avg_confidence.num = 0
  /\ fn.result.recommendation = "ACCEPT - No spam detected"

=============================================================================
